---- MODULE Spec2Model ----
(***************************************************************************)
(* FreeD camera-tracking capture: blackhole/device_capture/freed_capture.py *)
(*                                                                         *)
(* A bytes object is a sequence of integers 0..255.  Python offsets are    *)
(* 0-based, TLA+ sequences 1-based: the byte at offset k is bytes[k+1].    *)
(* A Python float is modelled by the exact rational it denotes, kept in    *)
(* lowest terms ([num, den], den > 0).  n / 2^f with |n| < 2^24 is exact   *)
(* in a double; the quotient by 10.0 is modelled by the exact quotient.    *)
(***************************************************************************)
EXTENDS Integers, Naturals, Sequences, FiniteSets, TLC

VARIABLES pc, packetBytes, parsedPacket, isValid, capturedTrackingData,
          clock, history, flip

vars == <<pc, packetBytes, parsedPacket, isValid, capturedTrackingData,
          clock, history, flip>>

(***************************************************************************)
(* Bounds                                                                  *)
(***************************************************************************)
MaxPackets == 3
MaxClock == 2
LenSlack == 1

(***************************************************************************)
(* Program constants                                                       *)
(***************************************************************************)
FREED_PACKET_SIZE == 29
SyncByte == 209
ChecksumSeed == 64
ChecksumMask == 3

(***************************************************************************)
(* Arithmetic helpers                                                      *)
(***************************************************************************)
RECURSIVE Pow2(_)
Pow2(k) == IF k = 0 THEN 1 ELSE 2 * Pow2(k - 1)

Abs(n) == IF n < 0 THEN -n ELSE n

RECURSIVE GCD(_, _)
GCD(a, b) == IF b = 0 THEN a ELSE GCD(b, a % b)

\* The rational n/d (d > 0) in lowest terms.
Rat(n, d) ==
    LET g == GCD(Abs(n), d)
    IN  [num |-> IF n < 0 THEN -(Abs(n) \div g) ELSE n \div g, den |-> d \div g]

RatDiv(r, k) == Rat(r.num, r.den * k)
RatAddInt(r, k) == Rat(r.num + k * r.den, r.den)
RatNeg(r) == [num |-> -r.num, den |-> r.den]

(***************************************************************************)
(* bytes                                                                   *)
(***************************************************************************)
Min(a, b) == IF a < b THEN a ELSE b

\* bytes[start:stop] with Python's clamping of the bounds.
Slice(bytes, start, stop) ==
    LET hi == Min(stop, Len(bytes))
    IN  IF start >= hi THEN <<>> ELSE [i \in 1..(hi - start) |-> bytes[start + i]]

\* int.from_bytes(raw, byteorder='big')
RECURSIVE FromBytesUnsigned(_)
FromBytesUnsigned(raw) ==
    IF Len(raw) = 0 THEN 0
    ELSE 256 * FromBytesUnsigned(SubSeq(raw, 1, Len(raw) - 1)) + raw[Len(raw)]

\* int.from_bytes(raw, byteorder='big', signed=True): when the top bit of the
\* most significant byte is set the magnitude is the complement of the bytes
\* plus one.
FromBytesSigned(raw) ==
    IF Len(raw) = 0 THEN 0
    ELSE IF raw[1] >= 128
         THEN -(FromBytesUnsigned([i \in 1..Len(raw) |-> 255 - raw[i]]) + 1)
         ELSE FromBytesUnsigned(raw)

\* struct.unpack(fmt, bytes) for a format of byte-string fields: fmt is the
\* sequence of the field widths, the result the sequence of the fields.
RECURSIVE FieldOffset(_, _)
FieldOffset(fmt, k) == IF k = 1 THEN 0 ELSE FieldOffset(fmt, k - 1) + fmt[k - 1]

Unpack(fmt, bytes) ==
    [k \in 1..Len(fmt) |->
        Slice(bytes, FieldOffset(fmt, k), FieldOffset(fmt, k) + fmt[k])]

(***************************************************************************)
(* FreeDPacket                                                             *)
(***************************************************************************)
NoneValue == [kind |-> "None"]

\* Mutant: 2-byte zoom, 1-byte focus, 2-byte spare, checksum at offset 25.
packet_format_short == <<1, 1, 3, 3, 3, 3, 3, 3, 2, 1, 2, 1>>

\* '!cc3s3s3s3s3s3s3s3s2sc'
packet_format == <<1, 1, 3, 3, 3, 3, 3, 3, 3, 3, 2, 1>>

\* Mutant: the field read as an unsigned integer.
getFreeDFloat_unsigned(rawBytes, fractionalByteSize) ==
    Rat(FromBytesUnsigned(rawBytes), Pow2(fractionalByteSize))

getFreeDFloat(rawBytes, fractionalByteSize) ==
    LET nonFractional == FromBytesSigned(rawBytes)
    IN  Rat(nonFractional, Pow2(fractionalByteSize))

\* FreeDPacket(packetData).  On a length mismatch __init__ returns before
\* any attribute is assigned: the object exists and has no attributes.
FreeDPacket(packetData) ==
    IF Len(packetData) # FREED_PACKET_SIZE
    THEN [kind |-> "FreeDPacket", init |-> FALSE]
    ELSE LET u == Unpack(packet_format, packetData)
         IN  [kind |-> "FreeDPacket", init |-> TRUE,
              packetBytes |-> packetData,
              cam_id   |-> FromBytesUnsigned(u[2]),
              rot_pan  |-> getFreeDFloat(u[3], 15),
              rot_tilt |-> getFreeDFloat(u[4], 15),
              rot_roll |-> getFreeDFloat(u[5], 15),
              pos_x    |-> getFreeDFloat(u[6], 6),
              pos_y    |-> getFreeDFloat(u[7], 6),
              pos_z    |-> getFreeDFloat(u[8], 6),
              zoom     |-> FromBytesUnsigned(u[9]),
              focus    |-> FromBytesUnsigned(u[10]),
              spare    |-> FromBytesUnsigned(u[11]),
              checksum |-> FromBytesUnsigned(u[12])]

\* hasattr(obj, name) for the attributes __init__ assigns.
HasAttrs(obj) == obj.kind = "FreeDPacket" /\ obj.init

\* x & mask for a mask 2^k - 1 and any Python int x (negative included).
BitAnd(x, mask) == x % (mask + 1)

\* Mutant: the accumulator kept modulo 256.
RECURSIVE ChecksumLoop_mod256(_, _, _)
ChecksumLoop_mod256(bytes, i, sum) ==
    IF i > Len(bytes) THEN sum
    ELSE ChecksumLoop_mod256(bytes, i + 1, BitAnd(sum - bytes[i], 255))

\* The loop of checksumValid over bytes[i..], accumulator sum.
RECURSIVE ChecksumLoop(_, _, _)
ChecksumLoop(bytes, i, sum) ==
    IF i > Len(bytes) THEN sum
    ELSE ChecksumLoop(bytes, i + 1, BitAnd(sum - bytes[i], ChecksumMask))

checksumValid(self) == ChecksumLoop(self.packetBytes, 1, ChecksumSeed) = 0

(***************************************************************************)
(* FreeDCaptureThread                                                      *)
(***************************************************************************)
packet_size == FREED_PACKET_SIZE

\* Mutant: the axes are not swapped.
packageFrameData_noswap(packet, timecode) ==
    [TRACKING_X     |-> RatDiv(packet.pos_x, 10),
     TRACKING_Y     |-> RatDiv(packet.pos_y, 10),
     TRACKING_Z     |-> RatDiv(packet.pos_z, 10),
     TRACKING_PITCH |-> packet.rot_tilt,
     TRACKING_YAW   |-> RatNeg(RatAddInt(packet.rot_pan, 90)),
     TRACKING_ROLL  |-> packet.rot_roll,
     TRACKING_TIMECODE_KEY |-> timecode]

packageFrameData(packet, timecode) ==
    [TRACKING_X     |-> RatDiv(packet.pos_y, 10),
     TRACKING_Y     |-> RatDiv(packet.pos_z, 10),
     TRACKING_Z     |-> RatDiv(packet.pos_x, 10),
     TRACKING_PITCH |-> packet.rot_tilt,
     TRACKING_YAW   |-> RatNeg(RatAddInt(packet.rot_pan, 90)),
     TRACKING_ROLL  |-> packet.rot_roll,
     TRACKING_TIMECODE_KEY |-> timecode]

\* Mutant: no check of the leading byte.
parsePacket_nogate(bytes) == FreeDPacket(bytes)

\* logger.info(transformPacketObject) formats the record inside the logging
\* handler, which reports a failing __str__ instead of raising: the call
\* changes no state of the capture thread.
parsePacket(bytes) ==
    IF Slice(bytes, 0, 1) = <<SyncByte>> THEN FreeDPacket(bytes) ELSE NoneValue

\* Mutant: the checksum is not consulted.
validateParsedData_nochecksum(packet) ==
    IF packet.kind # "FreeDPacket" THEN "False"
    ELSE IF ~HasAttrs(packet) THEN "AttributeError"
    ELSE "True"

\* "True", "False", or "AttributeError" when checksumValid reads
\* self.packetBytes of an object whose __init__ returned early.
validateParsedData(packet) ==
    IF packet.kind # "FreeDPacket" THEN "False"
    ELSE IF ~HasAttrs(packet) THEN "AttributeError"
    ELSE IF checksumValid(packet) THEN "True" ELSE "False"

\* Mutant: the record is put at the front.
cacheParsedData_prepend(captured, packet, timecode) ==
    <<packageFrameData(packet, timecode)>> \o captured

cacheParsedData(captured, packet, timecode) ==
    Append(captured, packageFrameData(packet, timecode))

(***************************************************************************)
(* Inputs                                                                  *)
(***************************************************************************)
ByteSamples == {0, 1, 127, 128, 255}
Windows == {1, 2, 5, 8, 11, 14, 17, 20, 23, 26}
Heads == {0, SyncByte}
Lens == {0, 1} \cup ((FREED_PACKET_SIZE - LenSlack)..(FREED_PACKET_SIZE + LenSlack))

ZeroBase == [i \in 1..FREED_PACKET_SIZE |-> 0]

\* pan 10, tilt 20, roll 30 degrees, position (1000, 2000, 3000) mm, camera 1,
\* checksum byte 0x71 = (0x40 - sum of the other bytes) mod 256.
ExampleBase ==
    <<209, 1, 5, 0, 0, 10, 0, 0, 15, 0, 0, 0, 250, 0, 1, 244, 0, 2, 238, 0,
      0, 0, 0, 0, 0, 0, 0, 0, 113>>

Bases == {ZeroBase, ExampleBase}

\* A buffer of len bytes: base, with first byte b0 and the three bytes v at
\* offsets w..w+2.
Mk(len, b0, base, w, v) ==
    [i \in 1..len |->
        IF i = 1 THEN b0
        ELSE IF i - 1 \in w..(w + 2) THEN v[i - w]
        ELSE IF i <= Len(base) THEN base[i] ELSE 0]

Triples == [1..3 -> ByteSamples]

WellFormed ==
    {Mk(FREED_PACKET_SIZE, SyncByte, base, w, v) :
        base \in Bases, w \in Windows, v \in Triples}

Malformed ==
    {Mk(len, b0, ZeroBase, 26, v) : len \in Lens, b0 \in Heads, v \in Triples}

InputBuffers == WellFormed \cup Malformed

StreamBuffers ==
    {ExampleBase,
     Mk(FREED_PACKET_SIZE, SyncByte, ZeroBase, 14, <<128, 0, 127>>),
     Mk(FREED_PACKET_SIZE, SyncByte, ZeroBase, 26, <<0, 0, 0>>),
     Mk(FREED_PACKET_SIZE, 0, ZeroBase, 26, <<0, 0, 0>>)}
    \cup {Mk(len, SyncByte, ZeroBase, 26, <<0, 0, 0>>) :
             len \in Lens \ {FREED_PACKET_SIZE}}

\* bytes with bit `bit` of the byte at offset `byte` inverted.
FlipBit(bytes, byte, bit) ==
    LET b == bytes[byte + 1]
        w == Pow2(bit)
    IN  [bytes EXCEPT ![byte + 1] = IF (b \div w) % 2 = 1 THEN b - w ELSE b + w]

NoFlip == [byte |-> -1, bit |-> -1]

\* (0x40 - sum of the bytes) masked once at the end.
RECURSIVE SumBytes(_)
SumBytes(bytes) ==
    IF Len(bytes) = 0 THEN 0 ELSE bytes[1] + SumBytes(Tail(bytes))

Residue(bytes) == (ChecksumSeed - SumBytes(bytes)) % 4

(***************************************************************************)
(* The capture loop.  pc is the position of the driver of the capability   *)
(* set {parsePacket, validateParsedData, cacheParsedData}:                 *)
(*   idle -> received -> parsed -> (validated -> idle | idle | raised)     *)
(***************************************************************************)
Init ==
    /\ pc = "idle"
    /\ packetBytes = <<>>
    /\ parsedPacket = NoneValue
    /\ isValid = "unset"
    /\ capturedTrackingData = <<>>
    /\ clock = 0
    /\ history = <<>>
    /\ flip = NoFlip

\* One buffer of the stream is handed in.
Receive ==
    /\ pc = "idle"
    /\ Len(history) < MaxPackets
    /\ \E b \in StreamBuffers : packetBytes' = b
    /\ pc' = "received"
    /\ parsedPacket' = NoneValue
    /\ isValid' = "unset"
    /\ UNCHANGED <<capturedTrackingData, clock, history, flip>>

\* The system timecode advances.
Tick ==
    /\ clock < MaxClock
    /\ clock' = clock + 1
    /\ UNCHANGED <<pc, packetBytes, parsedPacket, isValid,
                   capturedTrackingData, history, flip>>

\* One bit of a well-formed, valid packet is inverted in transit.
Corrupt ==
    /\ pc = "received"
    /\ flip = NoFlip
    /\ Len(packetBytes) = FREED_PACKET_SIZE
    /\ packetBytes[1] = SyncByte
    /\ Residue(packetBytes) = 0
    /\ \E byte \in 0..(FREED_PACKET_SIZE - 1), bit \in 0..7 :
          /\ packetBytes' = FlipBit(packetBytes, byte, bit)
          /\ flip' = [byte |-> byte, bit |-> bit]
    /\ UNCHANGED <<pc, parsedPacket, isValid, capturedTrackingData, clock,
                   history>>

ParsePacket ==
    /\ pc = "received"
    /\ parsedPacket' = parsePacket(packetBytes)
    /\ history' = Append(history, packetBytes)
    /\ pc' = "parsed"
    /\ UNCHANGED <<packetBytes, isValid, capturedTrackingData, clock, flip>>

ValidateParsedData ==
    /\ pc = "parsed"
    /\ LET r == validateParsedData(parsedPacket)
       IN  /\ isValid' = r
           /\ pc' = CASE r = "True" -> "validated"
                      [] r = "False" -> "idle"
                      [] OTHER -> "raised"
    /\ UNCHANGED <<packetBytes, parsedPacket, capturedTrackingData, clock,
                   history, flip>>

CacheParsedData ==
    /\ pc = "validated"
    /\ capturedTrackingData' =
          cacheParsedData(capturedTrackingData, parsedPacket, clock)
    /\ pc' = "idle"
    /\ UNCHANGED <<packetBytes, parsedPacket, isValid, clock, history, flip>>

Next ==
    \/ Receive
    \/ Tick
    \/ ParsePacket
    \/ ValidateParsedData
    \/ CacheParsedData

Spec == Init /\ [][Next]_vars

(***************************************************************************)
(* One buffer, any of InputBuffers, possibly corrupted in transit, taken   *)
(* through parsePacket, validateParsedData and cacheParsedData.            *)
(***************************************************************************)
InitPacket ==
    /\ pc = "received"
    /\ packetBytes \in InputBuffers
    /\ parsedPacket = NoneValue
    /\ isValid = "unset"
    /\ capturedTrackingData = <<>>
    /\ clock = 0
    /\ history = <<>>
    /\ flip = NoFlip

NextPacket ==
    \/ Corrupt
    \/ ParsePacket
    \/ ValidateParsedData
    \/ CacheParsedData

SpecPacket == InitPacket /\ [][NextPacket]_vars

(***************************************************************************)
(* Properties                                                              *)
(***************************************************************************)
\* The byte at Python offset k.
ByteAt(bytes, k) == bytes[k + 1]

\* The number of buffers of history whose processing has ended.
Done == IF pc \in {"parsed", "validated"} THEN Len(history) - 1 ELSE Len(history)

Processed == SubSeq(history, 1, Done)

\* First byte 0xD1 and checksumValid() true for the buffer.
Accepts(buf) ==
    /\ Len(buf) = FREED_PACKET_SIZE
    /\ ByteAt(buf, 0) = SyncByte
    /\ checksumValid([packetBytes |-> buf])

AllFullSize == \A i \in 1..Len(history) : Len(history[i]) = FREED_PACKET_SIZE

\* C1: over any sequence of 29-byte buffers, a record is appended for a
\* buffer if and only if its first byte is 0xD1 and checksumValid() is true
\* for it (the collection holds as many records as accepted buffers at every
\* point of the run, so a rejected buffer leaves it unchanged); a buffer
\* whose first byte is not 0xD1 makes parsePacket return None, no FreeDPacket
\* being constructed.
C1_RecordIffSyncAndChecksum ==
    AllFullSize =>
        /\ Len(capturedTrackingData) =
              Cardinality({i \in 1..Done : Accepts(history[i])})
        /\ (pc \in {"parsed", "validated", "idle"} /\ history # <<>>
              /\ ByteAt(history[Len(history)], 0) # SyncByte)
           => (parsedPacket = NoneValue /\ isValid # "True")

C1_Witness ==
    /\ pc = "idle"
    /\ Len(history) = 3
    /\ AllFullSize
    /\ Len(capturedTrackingData) = 1
    /\ \E i \in 1..3 : ByteAt(history[i], 0) # SyncByte
    /\ \E i \in 1..3 : ByteAt(history[i], 0) = SyncByte /\ ~Accepts(history[i])

\* The record packageFrameData builds for an accepted buffer, its timecode
\* left aside.
SameTransform(rec, buf) ==
    LET e == packageFrameData(FreeDPacket(buf), 0)
    IN  [rec EXCEPT !.TRACKING_TIMECODE_KEY = 0] = e

\* The timecodes of a collection never decrease along it.
TimecodesOrdered(cap) ==
    \A j \in 1..(Len(cap) - 1) :
        cap[j].TRACKING_TIMECODE_KEY <= cap[j + 1].TRACKING_TIMECODE_KEY

\* C9: capturedTrackingData holds exactly one record per accepted packet in
\* arrival order: a step either leaves the collection alone or appends, at
\* its end and with every earlier record kept as it was, the record of the
\* latest buffer to arrive, which is accepted, stamped with the timecode of
\* that moment; after every step the collection has as many records as
\* accepted packets and its timecodes never decrease.
C9_AppendOnlyInArrivalOrder ==
    [][/\ \/ capturedTrackingData' = capturedTrackingData
          \/ /\ pc = "validated"
             /\ packetBytes = history[Len(history)]
             /\ Accepts(packetBytes)
             /\ Len(capturedTrackingData') = Len(capturedTrackingData) + 1
             /\ SubSeq(capturedTrackingData', 1, Len(capturedTrackingData))
                   = capturedTrackingData
             /\ LET r == capturedTrackingData'[Len(capturedTrackingData')]
                IN  /\ r.TRACKING_TIMECODE_KEY = clock
                    /\ SameTransform(r, packetBytes)
       /\ AllFullSize' =>
             Len(capturedTrackingData') = Len(SelectSeq(Processed, Accepts)')
       /\ TimecodesOrdered(capturedTrackingData')
      ]_vars

C9_Witness ==
    /\ pc = "idle"
    /\ Len(history) = 3
    /\ Len(capturedTrackingData) = 2
    /\ ~Accepts(history[2])
    /\ capturedTrackingData[1].TRACKING_X # capturedTrackingData[2].TRACKING_X
    /\ capturedTrackingData[1].TRACKING_TIMECODE_KEY
          < capturedTrackingData[2].TRACKING_TIMECODE_KEY

\* A FreeDPacket whose constructor ran to its end is at hand.
Decoded == pc # "received" /\ HasAttrs(parsedPacket)

\* C2: a buffer whose length is not 29 never yields a packet object with
\* unset fields: every object parsePacket returns has all its fields.
C2_NoPartialPacket ==
    (pc # "received" /\ parsedPacket.kind = "FreeDPacket")
        => HasAttrs(parsedPacket)

\* C3: no exception escapes parsePacket and validateParsedData, whatever the
\* buffer; a buffer that starts with 0xD1 and is not 29 bytes long is
\* rejected by validateParsedData with a false result.
C3_NoExceptionEscapes ==
    /\ pc # "raised"
    /\ isValid # "AttributeError"
    /\ (pc = "idle" /\ history # <<>>
          /\ Len(packetBytes) # FREED_PACKET_SIZE) => isValid = "False"

C5_ChecksumMod256 ==
    Decoded =>
        (checksumValid(parsedPacket)
            <=> (ChecksumSeed - SumBytes(parsedPacket.packetBytes)) % 256 = 0)

\* C6 as stated: camera_id from byte 1, zoom from the 2 bytes at offsets
\* 20..21, focus from the byte at offset 22, spare from the 2 bytes at
\* offsets 23..24, checksum from the byte at offset 25.
C6_DocumentedLayout ==
    Decoded =>
        LET b == parsedPacket.packetBytes
        IN  /\ parsedPacket.cam_id = ByteAt(b, 1)
            /\ parsedPacket.zoom = 256 * ByteAt(b, 20) + ByteAt(b, 21)
            /\ parsedPacket.focus = ByteAt(b, 22)
            /\ parsedPacket.spare = 256 * ByteAt(b, 23) + ByteAt(b, 24)
            /\ parsedPacket.checksum = ByteAt(b, 25)

\* C6 amended: camera_id is byte 1, zoom the big-endian unsigned value of
\* the 3 bytes at offsets 20..22, focus that of the 3 bytes at offsets
\* 23..25, spare that of the 2 bytes at offsets 26..27, checksum byte 28.
C6_UnpackedLayout ==
    Decoded =>
        LET b == parsedPacket.packetBytes
        IN  /\ parsedPacket.cam_id = ByteAt(b, 1)
            /\ parsedPacket.zoom =
                  65536 * ByteAt(b, 20) + 256 * ByteAt(b, 21) + ByteAt(b, 22)
            /\ parsedPacket.focus =
                  65536 * ByteAt(b, 23) + 256 * ByteAt(b, 24) + ByteAt(b, 25)
            /\ parsedPacket.spare = 256 * ByteAt(b, 26) + ByteAt(b, 27)
            /\ parsedPacket.checksum = ByteAt(b, 28)

C6_Witness ==
    /\ Decoded
    /\ parsedPacket.cam_id = 1
    /\ parsedPacket.zoom > 65536
    /\ ByteAt(parsedPacket.packetBytes, 22) # 0
    /\ parsedPacket.checksum = 113

\* n as a 3-byte big-endian two's-complement field.
Encode3(n) ==
    LET m == n % Pow2(24)
    IN  <<m \div 65536, (m \div 256) % 256, m % 256>>

\* The 24-bit field at offset off holds n and the attribute is n / 2^f.
FieldIs(bytes, off, f, value) ==
    LET u == 65536 * ByteAt(bytes, off) + 256 * ByteAt(bytes, off + 1)
                + ByteAt(bytes, off + 2)
        n == IF ByteAt(bytes, off) >= 128 THEN u - Pow2(24) ELSE u
    IN  /\ n >= -Pow2(23)
        /\ n <= Pow2(23) - 1
        /\ Encode3(n) = Slice(bytes, off, off + 3)
        /\ value = Rat(n, Pow2(f))

\* C7: the 3-byte field that encodes n in two's complement decodes to
\* n / 2^f, f = 15 for pan, tilt, roll at offsets 2, 5, 8 and f = 6 for
\* pos_x, pos_y, pos_z at offsets 11, 14, 17; a field whose first byte has
\* its high bit set decodes to (unsigned value - 2^24) / 2^f.
C7_SignedFixedPoint ==
    Decoded =>
        LET b == parsedPacket.packetBytes
        IN  /\ FieldIs(b, 2, 15, parsedPacket.rot_pan)
            /\ FieldIs(b, 5, 15, parsedPacket.rot_tilt)
            /\ FieldIs(b, 8, 15, parsedPacket.rot_roll)
            /\ FieldIs(b, 11, 6, parsedPacket.pos_x)
            /\ FieldIs(b, 14, 6, parsedPacket.pos_y)
            /\ FieldIs(b, 17, 6, parsedPacket.pos_z)

C7_Witness ==
    /\ Decoded
    /\ parsedPacket.pos_x = [num |-> -(Pow2(17)), den |-> 1]
    /\ parsedPacket.rot_pan = [num |-> 10, den |-> 1]
    /\ Slice(parsedPacket.packetBytes, 11, 14) = <<128, 0, 0>>

Whole(n) == [num |-> n, den |-> 1]

\* C8: every record is target_x = pos_y / 10, target_y = pos_z / 10,
\* target_z = pos_x / 10, target_pitch = rot_tilt, target_yaw =
\* -(rot_pan + 90), target_roll = rot_roll of its packet and depends on
\* nothing else of the packet; pos = (1000, 2000, 3000), pan/tilt/roll =
\* (10, 20, 30) gives (200, 300, 100), pitch 20, yaw -100, roll 30.
C8_AxisRemap ==
    (pc = "idle" /\ Len(capturedTrackingData) = 1) =>
        LET p == parsedPacket
            r == capturedTrackingData[1]
        IN  /\ r.TRACKING_X = Rat(p.pos_y.num, 10 * p.pos_y.den)
            /\ r.TRACKING_Y = Rat(p.pos_z.num, 10 * p.pos_z.den)
            /\ r.TRACKING_Z = Rat(p.pos_x.num, 10 * p.pos_x.den)
            /\ r.TRACKING_PITCH = p.rot_tilt
            /\ r.TRACKING_YAW = Rat(-(p.rot_pan.num + 90 * p.rot_pan.den),
                                    p.rot_pan.den)
            /\ r.TRACKING_ROLL = p.rot_roll
            /\ ( /\ p.pos_x = Whole(1000) /\ p.pos_y = Whole(2000)
                 /\ p.pos_z = Whole(3000) /\ p.rot_pan = Whole(10)
                 /\ p.rot_tilt = Whole(20) /\ p.rot_roll = Whole(30) )
               => /\ r.TRACKING_X = Whole(200)
                  /\ r.TRACKING_Y = Whole(300)
                  /\ r.TRACKING_Z = Whole(100)
                  /\ r.TRACKING_PITCH = Whole(20)
                  /\ r.TRACKING_YAW = Whole(-100)
                  /\ r.TRACKING_ROLL = Whole(30)

C8_Witness ==
    /\ pc = "idle"
    /\ Len(capturedTrackingData) = 1
    /\ parsedPacket.pos_x = Whole(1000)
    /\ parsedPacket.pos_y = Whole(2000)
    /\ parsedPacket.pos_z = Whole(3000)
    /\ parsedPacket.rot_pan = Whole(10)
    /\ parsedPacket.rot_tilt = Whole(20)
    /\ parsedPacket.rot_roll = Whole(30)
    /\ parsedPacket.zoom # 0
    /\ capturedTrackingData[1].TRACKING_YAW = Whole(-100)

Flipped == flip # NoFlip

\* C10 as stated: from a valid packet, a flip of one bit in positions 2..7
\* of any byte leaves the packet valid, accepted, and a record is emitted; a
\* flip of bit 0 or 1 of any byte makes the packet invalid.
C10_FlipAnyByte ==
    (Flipped /\ pc = "idle") =>
        IF flip.bit >= 2
        THEN isValid = "True" /\ Len(capturedTrackingData) = 1
        ELSE isValid = "False" /\ Len(capturedTrackingData) = 0

\* C10 amended: from a valid packet, checksumValid() of the bytes with one
\* bit flipped is true for a bit in positions 2..7 and false for bit 0 or
\* 1, in any byte; the flipped packet is accepted and the record of the
\* altered bytes emitted exactly when the bit is in positions 2..7 of a byte
\* other than the first; a flip in the first byte makes parsePacket return
\* None and no record is emitted.
C10_FlipVerdict ==
    Flipped =>
        /\ checksumValid(FreeDPacket(packetBytes)) <=> flip.bit >= 2
        /\ (isValid # "unset" /\ flip.byte # 0) =>
              (isValid = "True" <=> flip.bit >= 2)
        /\ (pc # "received" /\ flip.byte = 0) => parsedPacket = NoneValue
        /\ pc = "idle" =>
              /\ Len(capturedTrackingData) = 1
                    <=> (flip.bit >= 2 /\ flip.byte # 0)
              /\ Len(capturedTrackingData) = 1 =>
                    capturedTrackingData[1]
                       = packageFrameData(FreeDPacket(packetBytes), clock)
              /\ Len(capturedTrackingData) = 0 => isValid = "False"

C10_Witness ==
    /\ Flipped
    /\ pc = "idle"
    /\ flip.byte = 11
    /\ flip.bit = 7
    /\ Len(capturedTrackingData) = 1
    /\ capturedTrackingData[1].TRACKING_Z.num < 0

====
